---------------------------- MODULE Spec2Model ----------------------------
(***************************************************************************)
(* Model of the refiner's privacy transformation pipeline:                 *)
(*   refiner/utils/pii.py            scrub_text_advanced and its regexes    *)
(*   refiner/utils/date.py           _iso                                   *)
(*   refiner/utils/other.py          _to_int                                *)
(*   refiner/models/unrefined.py     the validated (pydantic) document      *)
(*   refiner/models/refined.py       the tables and their constraints       *)
(*   refiner/transformer/*.py        DataTransformer.process and            *)
(*                                   TelegramChatTransformer.transform      *)
(*   refiner/config.py               Settings / settings                    *)
(*                                                                         *)
(* Python values are modelled as follows.  Optional[T] is a sequence of    *)
(* length <= 1: None is <<>>, a present value v is <<v>>.  A str that the  *)
(* code inspects character by character (message text, dates, unix times)  *)
(* is a sequence of one-character strings; other strs are TLA+ strings.    *)
(* A dict is a record (a function from its keys).                          *)
(***************************************************************************)
EXTENDS Integers, Sequences, FiniteSets, TLC

None == <<>>
Some(v) == <<v>>
IsNone(o) == Len(o) = 0
Val(o) == o[1]

(***************************************************************************)
(* Characters.  Cyrillic letters cannot be written in a module, so a few   *)
(* of them are named by transliteration: "CYR-I" is the capital letter I   *)
(* of the Cyrillic alphabet, "cyr-v" the small letter ve, and so on.       *)
(***************************************************************************)
Digit == {"0", "1", "2", "3", "4", "5", "6", "7", "8", "9"}
Lower == {"a", "b", "c", "d", "e", "f", "g", "h", "i", "j", "k", "l", "m",
          "n", "o", "p", "q", "r", "s", "t", "u", "v", "w", "x", "y", "z"}
Upper == {"A", "B", "C", "D", "E", "F", "G", "H", "I", "J", "K", "L", "M",
          "N", "O", "P", "Q", "R", "S", "T", "U", "V", "W", "X", "Y", "Z"}
CyrUpper == {"CYR-I", "CYR-P", "CYR-A"}
CyrLower == {"cyr-v", "cyr-a", "cyr-n", "cyr-e", "cyr-t", "cyr-r", "cyr-o"}
Space == {" ", "\n", "\t"}
\* \w of a Python 3 str pattern: Unicode letters, digits and the underscore.
WordChar == Digit \cup Lower \cup Upper \cup CyrUpper \cup CyrLower \cup {"_"}

(***************************************************************************)
(* A small backtracking matcher for the patterns of pii.py.  A pattern is  *)
(* a sequence of items.  An item of kind "cls" is a character class (set,  *)
(* or its complement when neg) repeated greedily min..max times (max = -1: *)
(* unbounded); "b" is \b, "nlb" is (?<!\w), "nla" is (?!\w).               *)
(***************************************************************************)
Cls(S, lo, hi) == [k |-> "cls", neg |-> FALSE, set |-> S, min |-> lo, max |-> hi]
NotCls(S, lo, hi) == [k |-> "cls", neg |-> TRUE, set |-> S, min |-> lo, max |-> hi]
Lit(c) == Cls({c}, 1, 1)
Assertion(kind) == [k |-> kind, neg |-> FALSE, set |-> {}, min |-> 0, max |-> 0]

InCls(c, it) == (c \in it.set) # it.neg
WordAt(s, p) == p >= 1 /\ p <= Len(s) /\ s[p] \in WordChar

RECURSIVE RunLen(_, _, _, _)
\* How many characters from position p on are in the item's class, at most cap.
RunLen(s, p, it, cap) ==
    IF cap = 0 \/ p > Len(s) \/ ~InCls(s[p], it) THEN 0
    ELSE 1 + RunLen(s, p + 1, it, cap - 1)

RECURSIVE MatchFrom(_, _, _, _)
RECURSIVE TryCount(_, _, _, _, _)
\* The position after the match of items[k..] at position p, 0 when none:
\* each item takes as much as it can and gives back one character at a time.
MatchFrom(items, k, s, p) ==
    IF k > Len(items) THEN p
    ELSE LET it == items[k] IN
         CASE it.k = "cls" ->
                 LET cap == IF it.max < 0 THEN Len(s) ELSE it.max
                     n == RunLen(s, p, it, cap)
                 IN IF n < it.min THEN 0 ELSE TryCount(items, k, s, p, n)
           [] it.k = "b" ->
                 IF WordAt(s, p - 1) # WordAt(s, p)
                    THEN MatchFrom(items, k + 1, s, p) ELSE 0
           [] it.k = "nlb" ->
                 IF ~WordAt(s, p - 1) THEN MatchFrom(items, k + 1, s, p) ELSE 0
           [] it.k = "nla" ->
                 IF ~WordAt(s, p) THEN MatchFrom(items, k + 1, s, p) ELSE 0

TryCount(items, k, s, p, n) ==
    LET r == MatchFrom(items, k + 1, s, p + n) IN
    IF r # 0 THEN r
    ELSE IF n > items[k].min THEN TryCount(items, k, s, p, n - 1) ELSE 0

RECURSIVE MatchAlts(_, _, _, _)
\* A pattern with an optional leading group is the ordered list of its two
\* expansions (with the group first, as the greedy "?" tries them).
MatchAlts(alts, a, s, p) ==
    IF a > Len(alts) THEN 0
    ELSE LET r == MatchFrom(alts[a], 1, s, p) IN
         IF r # 0 THEN r ELSE MatchAlts(alts, a + 1, s, p)

Search(alts, s) == \E p \in 1..Len(s) : MatchAlts(alts, 1, s, p) # 0

RECURSIVE SubFrom(_, _, _, _)
\* re.sub: leftmost, non-overlapping matches replaced by tag.
SubFrom(alts, tag, s, p) ==
    IF p > Len(s) THEN <<>>
    ELSE LET e == MatchAlts(alts, 1, s, p) IN
         IF e > p THEN tag \o SubFrom(alts, tag, s, e)
         ELSE <<s[p]>> \o SubFrom(alts, tag, s, p + 1)

Sub(alts, tag, s) == SubFrom(alts, tag, s, 1)

EmailLocal == Lower \cup Upper \cup Digit \cup {"_", ".", "+", "-"}
EmailHost == Lower \cup Upper \cup Digit \cup {"-"}
EmailTail == Lower \cup Upper \cup Digit \cup {"-", "."}
PhoneSep == {"-", "."} \cup Space

EMAIL_RE == << <<Cls(EmailLocal, 1, -1), Lit("@"), Cls(EmailHost, 1, -1),
                 Lit("."), Cls(EmailTail, 1, -1)>> >>

PhoneBody == <<Cls({"("}, 0, 1), Cls(Digit, 2, 4), Cls({")"}, 0, 1),
               Cls(PhoneSep, 0, 1), Cls(Digit, 2, 4), Cls(PhoneSep, 0, 1),
               Cls(Digit, 2, 9)>>
PHONE_RE == << <<Cls({"+"}, 0, 1), Cls(Digit, 1, 3)>> \o PhoneBody, PhoneBody >>

URL_RE == << <<Lit("h"), Lit("t"), Lit("t"), Lit("p"), Cls({"s"}, 0, 1),
               Lit(":"), Lit("/"), Lit("/"), NotCls(Space, 0, -1),
               Cls(Lower \cup Upper \cup Digit \cup {"/"}, 1, 1)>> >>

TELEGRAM_USERNAME_RE == << <<Assertion("nlb"), Lit("@"), Cls(WordChar, 5, 32),
                             Assertion("nla")>> >>

CYRILLIC_NAME_RE == << <<Assertion("b"), Cls(CyrUpper, 1, 1), Cls(CyrLower, 1, -1),
                         Cls(Space, 1, -1), Cls(CyrUpper, 1, 1),
                         Cls(CyrLower, 1, -1), Assertion("b")>> >>

TagEMAIL == <<"[", "E", "M", "A", "I", "L", "]">>
TagPHONE == <<"[", "P", "H", "O", "N", "E", "]">>
TagURL == <<"[", "U", "R", "L", "]">>
TagTG == <<"[", "T", "G", "_", "U", "S", "E", "R", "N", "A", "M", "E", "]">>
TagPERSON == <<"[", "P", "E", "R", "S", "O", "N", "]">>
TagLOCATION == <<"[", "L", "O", "C", "A", "T", "I", "O", "N", "]">>

scrub_emails(text) == IF Len(text) > 0 THEN Sub(EMAIL_RE, TagEMAIL, text) ELSE text
\* scrub_phones leaving the text as it is.
scrub_phones_Off(text) == text
scrub_phones(text) == IF Len(text) > 0 THEN Sub(PHONE_RE, TagPHONE, text) ELSE text
scrub_urls(text) == IF Len(text) > 0 THEN Sub(URL_RE, TagURL, text) ELSE text
scrub_telegram_username(text) ==
    IF Len(text) > 0 THEN Sub(TELEGRAM_USERNAME_RE, TagTG, text) ELSE text

\* Lines 57-60 of scrub_text_advanced: the four pattern stages, in order.
ScrubPatterns(text) ==
    scrub_telegram_username(scrub_urls(scrub_phones(scrub_emails(text))))


(***************************************************************************)
(* Named-entity fallback (pii.py lines 67-86).  langdetect and the spaCy   *)
(* models are statistical collaborators outside the repository: which      *)
(* tokens they report as entities is not determined by the source, so the  *)
(* recogniser's answer is an input of the step.  A token is a maximal run  *)
(* of word characters; an answer is a set of at most MaxEnts tokens, each  *)
(* labelled PERSON (spaCy PERSON/PER) or LOCATION (GPE/LOC).               *)
(***************************************************************************)
MaxEnts == 1

TokenStarts(s) == {p \in 1..Len(s) : WordAt(s, p) /\ ~WordAt(s, p - 1)}
Token(s, p) == [idx |-> p, len |-> RunLen(s, p, Cls(WordChar, 0, -1), Len(s))]
Labels == {TagPERSON, TagLOCATION}
NerAnswers(s) ==
    {e \in SUBSET {[tok |-> Token(s, p), label |-> l] : p \in TokenStarts(s), l \in Labels} :
        /\ Cardinality(e) <= MaxEnts
        /\ \A a, b \in e : a.tok = b.tok => a = b}

RECURSIVE Redact(_, _)
\* Lines 82-84: tokens replaced from the highest offset down.
Redact(s, ents) ==
    IF ents = {} THEN s
    ELSE LET e == CHOOSE a \in ents : \A b \in ents : b.tok.idx <= a.tok.idx
             cut == SubSeq(s, 1, e.tok.idx - 1) \o e.label
                    \o SubSeq(s, e.tok.idx + e.tok.len, Len(s))
         IN Redact(cut, ents \ {e})

CyrillicPair == TagPERSON \o <<" ">> \o TagPERSON

\* The answers the recogniser may give for the text t left by the pattern
\* stages ({} alone when the Cyrillic shortcut returns before it is asked).
NerAfterPatterns(t) ==
    IF Search(CYRILLIC_NAME_RE, t) THEN {{}} ELSE NerAnswers(t)

\* The answers the recogniser may give when scrub_text_advanced(text) runs.
NerChoices(text) ==
    IF Len(text) = 0 THEN {{}} ELSE NerAfterPatterns(ScrubPatterns(text))

\* Lines 64-86, on the text t left by the pattern stages.
NamesStage(t, ents) ==
    IF Search(CYRILLIC_NAME_RE, t) THEN Sub(CYRILLIC_NAME_RE, CyrillicPair, t)
    ELSE Redact(t, ents)

\* scrub_text_advanced(text), given the recogniser's answer ents.
scrub_text_advanced(text, ents) ==
    IF Len(text) = 0 THEN text ELSE NamesStage(ScrubPatterns(text), ents)

(***************************************************************************)
(* utils/date.py _iso and utils/other.py _to_int.                          *)
(***************************************************************************)
RECURSIVE ToNat(_)
ToNat(ds) ==
    IF Len(ds) = 0 THEN 0
    ELSE 10 * ToNat(SubSeq(ds, 1, Len(ds) - 1))
         + (CHOOSE d \in 0..9 : <<"0", "1", "2", "3", "4", "5", "6", "7", "8", "9">>[d + 1] = ds[Len(ds)])

DigitChar(d) == <<"0", "1", "2", "3", "4", "5", "6", "7", "8", "9">>[d + 1]
Pad2(n) == <<DigitChar(n \div 10), DigitChar(n % 10)>>
Pad4(n) == <<DigitChar(n \div 1000), DigitChar((n \div 100) % 10)>> \o Pad2(n % 100)

IsLeap(y) == (y % 4 = 0 /\ y % 100 # 0) \/ y % 400 = 0
DaysIn(y, m) ==
    IF m = 2 THEN (IF IsLeap(y) THEN 29 ELSE 28)
    ELSE IF m \in {4, 6, 9, 11} THEN 30 ELSE 31

\* datetime.strptime(ts, "%Y-%m-%d %H:%M:%S"): the six numbers, or <<>> when
\* strptime raises ValueError.  %Y is four digits, the other fields one or
\* two; a blank of the format matches one or more white-space characters.
Strptime(ts) ==
    LET D(p, cap) == RunLen(ts, p, Cls(Digit, 0, -1), cap)
        N(p, w) == ToNat(SubSeq(ts, p, p + w - 1))
        Is(p, c) == p <= Len(ts) /\ ts[p] = c
        yW == D(1, 4)
        mP == 6
        mW == D(mP, 2)
        dP == mP + mW + 1
        dW == D(dP, 2)
        gP == dP + dW
        gW == RunLen(ts, gP, Cls(Space, 0, -1), Len(ts))
        hP == gP + gW
        hW == D(hP, 2)
        iP == hP + hW + 1
        iW == D(iP, 2)
        sP == iP + iW + 1
        sW == D(sP, 2)
    IN IF /\ yW = 4 /\ Is(5, "-") /\ mW >= 1 /\ Is(mP + mW, "-") /\ dW >= 1
          /\ gW >= 1 /\ hW >= 1 /\ Is(hP + hW, ":") /\ iW >= 1
          /\ Is(iP + iW, ":") /\ sW >= 1 /\ sP + sW = Len(ts) + 1
          /\ N(1, 4) >= 1 /\ N(mP, mW) \in 1..12
          /\ N(dP, dW) \in 1..DaysIn(N(1, 4), N(mP, mW))
          /\ N(hP, hW) <= 23 /\ N(iP, iW) <= 59 /\ N(sP, sW) <= 59
       THEN <<N(1, 4), N(mP, mW), N(dP, dW), N(hP, hW), N(iP, iW), N(sP, sW)>>
       ELSE <<>>

\* datetime.utcnow().isoformat(timespec="seconds") + "Z": the clock's reading.
UtcNow == <<"2", "0", "2", "5", "-", "0", "6", "-", "0", "1", "T",
            "0", "0", ":", "0", "0", ":", "0", "0", "Z">>

HasT(ts) == \E p \in 1..Len(ts) : ts[p] = "T"

\* _iso raises ValueError on ts (an Optional[str]).
IsoRaises(ts) == ~IsNone(ts) /\ ~HasT(Val(ts)) /\ Strptime(Val(ts)) = <<>>

\* _iso(ts) when it returns.
_iso(ts) ==
    IF IsNone(ts) THEN UtcNow
    ELSE IF HasT(Val(ts)) THEN Val(ts)
    ELSE LET f == Strptime(Val(ts)) IN
         Pad4(f[1]) \o <<"-">> \o Pad2(f[2]) \o <<"-">> \o Pad2(f[3]) \o <<"T">>
         \o Pad2(f[4]) \o <<":">> \o Pad2(f[5]) \o <<":">> \o Pad2(f[6]) \o <<"Z">>

RECURSIVE Strip(_)
Strip(s) ==
    IF Len(s) > 0 /\ s[1] \in Space THEN Strip(Tail(s))
    ELSE IF Len(s) > 0 /\ s[Len(s)] \in Space THEN Strip(SubSeq(s, 1, Len(s) - 1))
    ELSE s

\* _to_int(val) for val an Optional[str]: int(val), None on ValueError.
\* int() takes surrounding blanks, a sign, and digits with single
\* underscores between them.
_to_int(val) ==
    IF IsNone(val) THEN None
    ELSE LET s == Strip(Val(val))
             signed == Len(s) > 0 /\ s[1] \in {"+", "-"}
             body == IF signed THEN Tail(s) ELSE s
             ok == /\ Len(body) > 0
                   /\ body[1] \in Digit /\ body[Len(body)] \in Digit
                   /\ \A p \in 1..Len(body) :
                        \/ body[p] \in Digit
                        \/ body[p] = "_" /\ body[p - 1] \in Digit /\ body[p + 1] \in Digit
             n == ToNat(SelectSeq(body, LAMBDA c : c \in Digit))
         IN IF ~ok THEN None
            ELSE Some(IF signed /\ s[1] = "-" THEN 0 - n ELSE n)

(***************************************************************************)
(* utils/encrypt.py hash_id is not among the sources; it is modelled from  *)
(* section 4.1 of the specification: null for a null value, otherwise a    *)
(* deterministic token of HexDigestLen hex characters that stands for the  *)
(* SHA-256 digest of salt and value (distinct inputs, distinct tokens).    *)
(***************************************************************************)
HexDigestLen == 64

hash_id(raw_value, salt) ==
    IF IsNone(raw_value) THEN None
    ELSE Some([sha256 |-> <<salt, Val(raw_value)>>, hexlen |-> HexDigestLen])

(***************************************************************************)
(* models/unrefined.py: the raw JSON document and its validation.  A JSON  *)
(* object is a record holding the keys that are present.  The text of a    *)
(* message (Union[str, List[TextEntity]]) is [str |-> chars] or            *)
(* [list |-> runs], so that "" and [] stay different values.               *)
(***************************************************************************)
Get(d, k) == IF k \in DOMAIN d THEN Some(d[k]) ELSE None

\* TextEntity: type and text are required.
ValidTextEntity(d) == {"type", "text"} \subseteq DOMAIN d
\* ReactionRecent: from, from_id and date are required.
ValidReactionRecent(d) == {"from", "from_id", "date"} \subseteq DOMAIN d
\* Reaction: type, count, emoji and recent are required.
ValidReaction(d) ==
    /\ {"type", "count", "emoji", "recent"} \subseteq DOMAIN d
    /\ \A j \in 1..Len(d.recent) : ValidReactionRecent(d.recent[j])
\* Message: type, date, from and text are required.
ValidMessage(d) ==
    /\ {"type", "date", "from", "text"} \subseteq DOMAIN d
    /\ "list" \in DOMAIN d.text =>
          \A j \in 1..Len(d.text.list) : ValidTextEntity(d.text.list[j])
    /\ "text_entities" \in DOMAIN d =>
          \A j \in 1..Len(d.text_entities) : ValidTextEntity(d.text_entities[j])
    /\ "reactions" \in DOMAIN d =>
          \A j \in 1..Len(d.reactions) : ValidReaction(d.reactions[j])
\* Chat: type and messages are required.  RawChat.parse_obj(data) succeeds.
ValidChat(d) ==
    /\ {"type", "messages"} \subseteq DOMAIN d
    /\ \A j \in 1..Len(d.messages) : ValidMessage(d.messages[j])

ParseReactionRecent(d) == [from_ |-> d.from, from_id |-> d.from_id, date |-> d.date]
ParseReaction(d) ==
    [type |-> d.type, count |-> d.count, emoji |-> d.emoji,
     recent |-> [j \in 1..Len(d.recent) |-> ParseReactionRecent(d.recent[j])]]
\* The validated Message: every declared field, None for an absent optional.
ParseMessage(d) ==
    [id |-> Get(d, "id"), type |-> d.type, date |-> d.date,
     date_unixtime |-> Get(d, "date_unixtime"), from_ |-> d.from,
     from_id |-> Get(d, "from_id"), text |-> d.text,
     text_entities |-> Get(d, "text_entities"), edited |-> Get(d, "edited"),
     edited_unixtime |-> Get(d, "edited_unixtime"),
     reply_to_message_id |-> Get(d, "reply_to_message_id"),
     forwarded_from |-> Get(d, "forwarded_from"), photo |-> Get(d, "photo"),
     width |-> Get(d, "width"), height |-> Get(d, "height"),
     file |-> Get(d, "file"), file_name |-> Get(d, "file_name"),
     thumbnail |-> Get(d, "thumbnail"), media_type |-> Get(d, "media_type"),
     mime_type |-> Get(d, "mime_type"),
     duration_seconds |-> Get(d, "duration_seconds"),
     reactions |-> IF "reactions" \in DOMAIN d
                   THEN Some([j \in 1..Len(d.reactions) |-> ParseReaction(d.reactions[j])])
                   ELSE None]
\* The validated Chat.
ParseChat(d) ==
    [name |-> Get(d, "name"), type |-> d.type, id |-> Get(d, "id"),
     character_slug |-> Get(d, "character_slug"),
     character_level |-> Get(d, "character_level"),
     uploader_tg_id |-> Get(d, "uploader_tg_id"),
     messages |-> [j \in 1..Len(d.messages) |-> ParseMessage(d.messages[j])]]

(***************************************************************************)
(* models/refined.py: the five tables.  A table is the set of its rows; a  *)
(* row not yet inserted carries 0 in its autoincrement key.                *)
(***************************************************************************)
EmptyTables ==
    [users |-> {}, chats |-> {}, messages |-> {}, message_entities |-> {},
     reactions |-> {}]
\* Insertion order of one flush: parents before the rows that reference them.
TableOrder == <<"users", "chats", "messages", "message_entities", "reactions">>

Merged(a, b) == [t \in DOMAIN a |-> a[t] \cup b[t]]

RowIds(tbl, rows) ==
    CASE tbl = "chats" -> {r.chat_id : r \in rows}
      [] tbl = "messages" -> {r.message_rowid : r \in rows}
      [] OTHER -> {r.id : r \in rows}
\* The key a new row gets: one more than the largest in the table.
NextId(tbl, rows) ==
    IF rows = {} THEN 1
    ELSE 1 + (CHOOSE n \in RowIds(tbl, rows) : \A k \in RowIds(tbl, rows) : k <= n)

WithKey(tbl, row, rows) ==
    CASE tbl = "users" -> row
      [] tbl = "chats" -> [row EXCEPT !.chat_id = NextId(tbl, rows)]
      [] tbl = "messages" -> [row EXCEPT !.message_rowid = NextId(tbl, rows)]
      [] OTHER -> [row EXCEPT !.id = NextId(tbl, rows)]

\* The messages table without uq_chat_message.
UqChatMessage_Off(row, rows) == TRUE

\* UniqueConstraint("chat_id", "message_id", name="uq_chat_message").
UqChatMessage(row, rows) ==
    \A r \in rows : ~(r.chat_id = row.chat_id /\ r.message_id = row.message_id)

\* The constraints an INSERT of row into tbl must meet: primary key of users,
\* nullable=False of chats.tg_chat_id, uq_chat_message.  The other NOT NULL
\* columns are filled from required fields and from values that are never None.
ConstraintsOk(tbl, row, rows) ==
    CASE tbl = "users" -> \A r \in rows : r.pseudo_id # row.pseudo_id
      [] tbl = "chats" -> ~IsNone(row.tg_chat_id)
      [] tbl = "messages" -> UqChatMessage(row, rows)
      [] OTHER -> TRUE

(***************************************************************************)
(* The SQLAlchemy session, as far as process() and transform() use it.     *)
(*   pending  objects added and not yet flushed, in order                  *)
(*   txn      rows inserted by this transaction and not yet committed      *)
(*   state    "active", or "inactive" once a flush has failed (the         *)
(*            transaction is rolled back and the session waits for         *)
(*            rollback()), or "closed"                                     *)
(*   calls    the calls made on the session, in order; refs holds the      *)
(*            pseudonymous ids the call's object carries                   *)
(*   err      the exception being raised, None when there is none          *)
(***************************************************************************)
NewSession ==
    [pending |-> <<>>, txn |-> EmptyTables, state |-> "active", calls |-> <<>>,
     err |-> None]

Call(op, tbl, refs) == [op |-> op, tbl |-> tbl, refs |-> refs]

RECURSIVE Concat(_)
Concat(ss) == IF Len(ss) = 0 THEN <<>> ELSE Head(ss) \o Concat(Tail(ss))

Ordered(pending) ==
    Concat([t \in 1..Len(TableOrder) |->
              SelectSeq(pending, LAMBDA o : o.tbl = TableOrder[t])])

RECURSIVE InsertAll(_, _, _)
\* The INSERTs of one flush; ok is FALSE when one violates a constraint.
InsertAll(objs, txn, D) ==
    IF Len(objs) = 0 THEN [ok |-> TRUE, txn |-> txn]
    ELSE LET o == Head(objs)
             rows == D[o.tbl] \cup txn[o.tbl]
             row == WithKey(o.tbl, o.row, rows)
         IN IF ConstraintsOk(o.tbl, row, rows)
            THEN InsertAll(Tail(objs), [txn EXCEPT ![o.tbl] = @ \cup {row}], D)
            ELSE [ok |-> FALSE, txn |-> txn]

\* What a flush does to the session: the pending rows are inserted, or, on an
\* IntegrityError, the transaction is rolled back and the error raised.
FlushOutcome(S, r) ==
    IF r.ok THEN [S EXCEPT !.pending = <<>>, !.txn = r.txn]
    ELSE [S EXCEPT !.pending = <<>>, !.txn = EmptyTables, !.state = "inactive",
                   !.err = Some("IntegrityError")]
Flushed(S, D) == FlushOutcome(S, InsertAll(Ordered(S.pending), S.txn, D))

\* session.add(obj)
SessionAdd(S, tbl, row, refs) ==
    [S EXCEPT !.pending = Append(@, [tbl |-> tbl, row |-> row]),
              !.calls = Append(@, Call("add", tbl, refs))]

\* session.flush()
SessionFlush(S, D) ==
    Flushed([S EXCEPT !.calls = Append(@, Call("flush", "", {}))], D)

\* session.merge(UserPseudo(pseudo_id=p)): autoflush, look the key up, and
\* add a new pending row only when no row has it.
MergeLookup(S1, D, p) ==
    IF ~IsNone(S1.err) \/ \E r \in D.users \cup S1.txn.users : r.pseudo_id = p
    THEN S1
    ELSE [S1 EXCEPT !.pending = Append(@, [tbl |-> "users", row |-> [pseudo_id |-> p]])]
SessionMerge(S, D, p) ==
    MergeLookup(Flushed([S EXCEPT !.calls = Append(@, Call("merge", "users", {p}))], D),
                D, p)

\* session.commit(): flush, then the transaction's rows become durable.
CommitOutcome(S1) == IF ~IsNone(S1.err) THEN S1 ELSE [S1 EXCEPT !.txn = EmptyTables]
SessionCommit(S, D) ==
    CommitOutcome(Flushed([S EXCEPT !.calls = Append(@, Call("commit", "", {}))], D))
\* The committed tables after session.commit().
Durable(S1, D) == IF ~IsNone(S1.err) THEN D ELSE Merged(D, S1.txn)
Committed(S, D) == Durable(Flushed(S, D), D)

\* session.rollback()
SessionRollback(S) ==
    [S EXCEPT !.pending = <<>>, !.txn = EmptyTables, !.state = "active",
              !.calls = Append(@, Call("rollback", "", {}))]

\* session.close(): what was not committed is discarded.
SessionClose(S) ==
    [S EXCEPT !.pending = <<>>, !.txn = EmptyTables, !.state = "closed",
              !.calls = Append(@, Call("close", "", {}))]

(***************************************************************************)
(* transformer/telegram_chat_transformer.py: the pieces of transform().    *)
(***************************************************************************)
\* Python truthiness of an Optional[str].
Truthy(o) == ~IsNone(o) /\ Val(o) # ""

\* An absent id kept apart from the id 0.
OrZero_Apart(o) == IF IsNone(o) THEN -1 ELSE Val(o)

\* m.id or 0
OrZero(o) == IF IsNone(o) \/ Val(o) = 0 THEN 0 ELSE Val(o)

\* Lines 49-56: the Chat row (created_at is filled by the column default).
ChatRow(rc, salt) ==
    [chat_id |-> 0, tg_chat_id |-> rc.id, name |-> hash_id(rc.name, salt),
     character_slug |-> rc.character_slug,
     character_level |-> rc.character_level,
     uploader_id |-> hash_id(rc.uploader_tg_id, salt), created_at |-> UtcNow]

\* Lines 80-90: the text handed to the scrubber, a str or the joined runs.
MessageText(m) ==
    IF "str" \in DOMAIN m.text THEN m.text.str
    ELSE Concat([j \in 1..Len(m.text.list) |-> m.text.list[j].text])

\* Lines 93-96: the keys of m.dict() kept for the residual payload.
ContentKeys(m) == DOMAIN m \ {"text", "text_entities", "id"}
\* Line 98: content.pop("file_name", None)
Popped(keys) == keys \ {"file_name"}
\* Lines 93-98: m.dict() is the validated record, nested models included.
Content(m) == [k \in Popped(ContentKeys(m)) |-> m[k]]

\* Lines 100-115 raise ValueError when _iso does.
RowRaises(m) == IsoRaises(Some(m.date)) \/ IsoRaises(m.edited)

\* Lines 100-115: the Message row.
MessageRow(m, cid, from_hash, forwarded_from_hash, text_out) ==
    [message_rowid |-> 0, chat_id |-> cid, message_id |-> OrZero(m.id),
     type |-> m.type, date_iso |-> _iso(Some(m.date)),
     date_unixtime |-> _to_int(m.date_unixtime),
     edited_at_iso |-> _iso(m.edited), reply_to_id |-> m.reply_to_message_id,
     media_type |-> m.media_type, mime_type |-> m.mime_type,
     duration_s |-> m.duration_seconds, from_pseudo_id |-> from_hash,
     forwarded_from_pseudo_id |-> forwarded_from_hash, text_raw |-> text_out,
     content_json |-> IF DOMAIN Content(m) = {} THEN None ELSE Some(Content(m))]

Refs(row) ==
    {Val(h) : h \in {h \in {row.from_pseudo_id, row.forwarded_from_pseudo_id} : ~IsNone(h)}}

\* The merge without user_cache.add: the cache is never filled.
CacheAdd_Forget(T, S1, h) == [sess |-> S1, cache |-> T.cache]

\* Lines 66-69 and 73-77: merge the UserPseudo of a hash not yet in the cache.
\* T is [sess, cache]: the session and user_cache.
CacheAdd(T, S1, h) ==
    [sess |-> S1, cache |-> IF IsNone(S1.err) THEN T.cache \cup {Val(h)} ELSE T.cache]
MergeNew(T, D, h) ==
    IF IsNone(h) \/ Val(h) \in T.cache \/ ~IsNone(T.sess.err) THEN T
    ELSE CacheAdd(T, SessionMerge(T.sess, D, Val(h)), h)

\* Lines 72-77: the forwarded-from hash.
ForwardedHash(m, salt) ==
    IF Truthy(m.forwarded_from) THEN hash_id(m.forwarded_from, salt) ELSE None

Entities(m) == IF IsNone(m.text_entities) THEN <<>> ELSE Val(m.text_entities)
Reactions(m) == IF IsNone(m.reactions) THEN <<>> ELSE Val(m.reactions)

\* Lines 121-125 and 130-134: the child rows of a message.
EntityRow(te, rowid, ents) ==
    [id |-> 0, message_id |-> rowid, entity_type |-> te.type,
     entity_text |-> scrub_text_advanced(te.text, ents)]
ReactionRow(rx, rowid) ==
    [id |-> 0, message_id |-> rowid, emoji |-> rx.emoji, count |-> rx.count]

RECURSIVE AddEntities(_, _, _, _, _)
AddEntities(S, tes, j, rowid, entsE) ==
    IF j > Len(tes) THEN S
    ELSE AddEntities(SessionAdd(S, "message_entities",
                                EntityRow(tes[j], rowid, entsE[j]), {}),
                     tes, j + 1, rowid, entsE)
RECURSIVE AddReactions(_, _, _, _)
AddReactions(S, rxs, j, rowid) ==
    IF j > Len(rxs) THEN S
    ELSE AddReactions(SessionAdd(S, "reactions", ReactionRow(rxs[j], rowid), {}),
                      rxs, j + 1, rowid)

\* The Message row added and not flushed.
AddMessage_NoFlush(S, D, row) == SessionAdd(S, "messages", row, Refs(row))

\* Lines 116-117: add the Message row and flush.
AddMessage(S, D, row) == SessionFlush(SessionAdd(S, "messages", row, Refs(row)), D)

\* Lines 119-135: the child rows are added to the session S3 left by the flush
\* of the Message row, unless that flush raised.
AddChildren(T2, S3, m, rowid, entsE) ==
    IF ~IsNone(S3.err) THEN [sess |-> S3, cache |-> T2.cache, err |-> S3.err]
    ELSE [sess |-> AddReactions(AddEntities(S3, Entities(m), 1, rowid, entsE),
                                Reactions(m), 1, rowid),
          cache |-> T2.cache, err |-> None]

\* Lines 79-135, after the two merges have left T2 = [sess, cache].
WriteMessage(T2, D, m, cid, from_hash, forwarded_from_hash, ents, entsE) ==
    IF ~IsNone(T2.sess.err)
    THEN [sess |-> T2.sess, cache |-> T2.cache, err |-> T2.sess.err]
    ELSE IF RowRaises(m)
    THEN [sess |-> T2.sess, cache |-> T2.cache, err |-> Some("ValueError")]
    ELSE AddChildren(T2,
                     AddMessage(T2.sess, D,
                                MessageRow(m, cid, from_hash, forwarded_from_hash,
                                           scrub_text_advanced(MessageText(m), ents))),
                     m, NextId("messages", D.messages \cup T2.sess.txn.messages),
                     entsE)

\* The loop without the forwarded-from merge.
MergeForwarded_Skip(T1, D, m, from_hash, forwarded_from_hash, cid, ents, entsE) ==
    WriteMessage(T1, D, m, cid, from_hash, forwarded_from_hash, ents, entsE)

\* Lines 71-77: the forwarded-from merge, after the author's left T1.
MergeForwarded(T1, D, m, from_hash, forwarded_from_hash, cid, ents, entsE) ==
    WriteMessage(MergeNew(T1, D, forwarded_from_hash), D, m, cid, from_hash,
                 forwarded_from_hash, ents, entsE)

\* Lines 64-135: one iteration of the loop over raw_chat.messages, with the
\* recogniser's answers for the text (ents) and for each entity (entsE).
\* The result is the session, the cache and the exception raised, if any.
MergeAuthor(S, D, m, cid, cache, from_hash, forwarded_from_hash, ents, entsE) ==
    MergeForwarded(MergeNew([sess |-> S, cache |-> cache], D, from_hash), D, m,
                   from_hash, forwarded_from_hash, cid, ents, entsE)
MessageStep(S, D, m, cid, cache, salt, ents, entsE) ==
    MergeAuthor(S, D, m, cid, cache, hash_id(m.from_id, salt),
                ForwardedHash(m, salt), ents, entsE)

\* The recogniser's possible answers for the entities of a message.
EntityNerChoices(m) ==
    LET tes == Entities(m)
        all == UNION {NerChoices(tes[j].text) : j \in 1..Len(tes)}
    IN {f \in [1..Len(tes) -> all] : \A j \in 1..Len(tes) : f[j] \in NerChoices(tes[j].text)}

(***************************************************************************)
(* The documents handed to process().                                      *)
(***************************************************************************)
MaxMsgs == 2

IsoDate == <<"2", "0", "2", "5", "-", "0", "5", "-", "1", "1", "T",
             "1", "8", ":", "4", "5", ":", "0", "2">>
ExportDate == <<"2", "0", "2", "5", "-", "0", "5", "-", "1", "1", " ",
                "1", "8", ":", "4", "5", ":", "0", "2">>
BadDate == <<"y", "e", "s", "t", "e", "r", "d", "a", "y">>
UnixTime == <<"1", "7", "4", "6", "9", "8", "9", "1", "0", "2">>
HiBob == <<"h", "i", " ", "B", "o", "b">>
Handle == <<"@", "a", "l", "i", "c", "e", "1">>
\* A first name and a surname in Cyrillic letters.
CyrName == <<"CYR-I", "cyr-v", "cyr-a", "cyr-n", " ",
             "CYR-P", "cyr-e", "cyr-t", "cyr-r", "cyr-o", "cyr-v">>
CallMe == <<"C", "a", "l", "l", " ", "m", "e", " ", "a", "t", " ",
            "5", "5", "5", "-", "1", "2", "3", "-", "4", "5", "6", "7", " ",
            "o", "r", " ", "j", "o", "h", "n", "@", "x", ".", "c", "o", "m">>
CallMeScrubbed == <<"C", "a", "l", "l", " ", "m", "e", " ", "a", "t", " ">>
                  \o TagPHONE \o <<" ", "o", "r", " ">> \o TagEMAIL

\* A JSON object: the required keys and the optional keys that are given.
Json(req, opt) ==
    [k \in DOMAIN req \cup {o \in DOMAIN opt : ~IsNone(opt[o])} |->
        IF k \in DOMAIN req THEN req[k] ELSE Val(opt[k])]

\* A text message without media: id, sender and forwarded-from vary.
PlainMessage(id, from_id, fwd) ==
    Json([type |-> "message", date |-> IsoDate, from |-> "Ann",
          text |-> [str |-> <<>>]],
         [id |-> id, from_id |-> from_id, forwarded_from |-> fwd])
\* A message whose sender is also its forwarded-from identity.
TalkMessage ==
    Json([type |-> "message", date |-> IsoDate, from |-> "Bob",
          text |-> [str |-> HiBob]],
         [id |-> Some(2), from_id |-> Some("u2"), forwarded_from |-> Some("u2")])
\* A media message of an export: text runs, entities, a file, reactions.
MediaMessage ==
    Json([type |-> "message", date |-> ExportDate, from |-> "Bob",
          text |-> [list |-> <<[type |-> "plain", text |-> CyrName]>>]],
         [id |-> Some(2), from_id |-> Some("u2"), date_unixtime |-> Some(UnixTime),
          edited |-> Some(ExportDate),
          text_entities |-> Some(<<[type |-> "mention", text |-> Handle]>>),
          file |-> Some("files/cv.pdf"), file_name |-> Some("cv.pdf"),
          mime_type |-> Some("application/pdf"), media_type |-> Some("document"),
          reactions |-> Some(<<[type |-> "emoji", count |-> 2, emoji |-> "thumbs-up",
                                recent |-> <<[from |-> "Eve", from_id |-> "u3",
                                              date |-> IsoDate]>>]>>)])
\* A message whose date _iso cannot parse.
BadDateMessage ==
    Json([type |-> "message", date |-> BadDate, from |-> "Bob",
          text |-> [str |-> <<>>]],
         [id |-> Some(3), from_id |-> Some("u2"), forwarded_from |-> Some("u1")])

MessagePool ==
    {PlainMessage(id, who[1], who[2]) :
        id \in {None, Some(0), Some(1)},
        who \in {<<None, None>>, <<Some("u1"), Some("u2")>>}}
    \cup {TalkMessage, MediaMessage, BadDateMessage}

ChatDoc(id, msgs) ==
    Json([type |-> "personal_chat", messages |-> msgs],
         [name |-> Some("Secret Group"), id |-> id, uploader_tg_id |-> Some(777)])

\* The end-to-end document of section 8, as written there, and the same
\* document with the fields the validator requires.
ScenarioLiteral ==
    [id |-> 1, name |-> "Secret Group",
     messages |-> <<[id |-> 1, from_id |-> "u1", text |-> [str |-> CallMe]]>>]
ScenarioDoc ==
    [id |-> 1, name |-> "Secret Group", type |-> "personal_chat",
     messages |-> <<[id |-> 1, from_id |-> "u1", text |-> [str |-> CallMe],
                     type |-> "message", date |-> IsoDate, from |-> "John"]>>]

\* Documents that fail validation: a chat without type, a message without date.
InvalidDocs ==
    {[name |-> "Secret Group", id |-> 1, messages |-> <<>>],
     [type |-> "personal_chat", id |-> 1,
      messages |-> <<PlainMessage(Some(1), Some("u1"), None),
                     [id |-> 2, type |-> "message", from |-> "Ann",
                      text |-> [str |-> <<>>]]>>],
     ScenarioLiteral}

Docs ==
    {ChatDoc(Some(1), msgs) :
        msgs \in UNION {[1..n -> MessagePool] : n \in 0..MaxMsgs}}
    \cup {ChatDoc(None, <<m>>) : m \in {TalkMessage}}
    \cup InvalidDocs \cup {ScenarioDoc}

(***************************************************************************)
(* A database file left by an earlier, committed run of process(): it      *)
(* holds the chat of one plain message from "u1".                          *)
(***************************************************************************)
PriorSalt == Some("pepper")
PriorChat == ParseChat(ChatDoc(Some(1), <<PlainMessage(Some(1), Some("u1"), None)>>))
PriorDB ==
    Committed(MessageStep(SessionFlush(SessionAdd(NewSession, "chats",
                                                  ChatRow(PriorChat, PriorSalt), {}),
                                       EmptyTables),
                          EmptyTables, PriorChat.messages[1], 1, {}, PriorSalt,
                          {}, <<>>).sess,
              EmptyTables)

(***************************************************************************)
(* State.                                                                  *)
(*   env             the HASH_SALT of the environment / .env file          *)
(*   settings        refiner.config.settings ("unset" before the import)   *)
(*   pc              where process() is                                    *)
(*   data            the raw document given to process()                   *)
(*   manage_session  process() opened the session itself                   *)
(*   sess            the session                                           *)
(*   db, db0         the committed tables, now and when process() began    *)
(*   chat_id         chat_row.chat_id after the first flush                *)
(*   i               messages of raw_chat.messages handled so far          *)
(*   user_cache      transform()'s user_cache                              *)
(*   exc             the exception propagating out of transform()          *)
(*   hash_salts      the salts hash_id has been called with                *)
(*   ner_log         the recogniser's answer for the text of each message  *)
(*                   handled so far                                        *)
(* State of one call of scrub_text_advanced followed line by line:         *)
(*   scrub_arg       the argument of the call                              *)
(*   scrub_text      its local variable text                               *)
(*   scrub_at        the next line of the function ("off": no such call)   *)
(*   scrub_path      the return statement taken                            *)
(*   nlp_calls       calls of detect() and of the spaCy model              *)
(*   nlp_answer      the entities the model reported                       *)
(***************************************************************************)
VARIABLES env, settings, pc, data, manage_session, sess, db, db0, chat_id, i,
          user_cache, exc, hash_salts, ner_log,
          scrub_arg, scrub_text, scrub_at, scrub_path, nlp_calls, nlp_answer

scrub_vars == <<scrub_arg, scrub_text, scrub_at, scrub_path, nlp_calls, nlp_answer>>
process_vars == <<env, settings, pc, data, manage_session, sess, db, db0, chat_id,
                  i, user_cache, exc, hash_salts, ner_log>>
vars == <<process_vars, scrub_vars>>

\* No call of scrub_text_advanced is being followed.
ScrubOff ==
    /\ scrub_arg = <<>> /\ scrub_text = <<>> /\ scrub_at = "off"
    /\ scrub_path = "none" /\ nlp_calls = 0 /\ nlp_answer = {}

raw_chat == ParseChat(data)

Init ==
    /\ env \in {None, PriorSalt}
    /\ settings = "unset"
    /\ pc = "import"
    /\ data = [type |-> "none"]
    /\ manage_session = FALSE
    /\ sess = NewSession
    /\ db \in IF env = PriorSalt THEN {EmptyTables, PriorDB} ELSE {EmptyTables}
    /\ db0 = db
    /\ chat_id = 0
    /\ i = 0
    /\ user_cache = {}
    /\ exc = None
    /\ hash_salts = {}
    /\ ner_log = <<>>
    /\ ScrubOff

\* config.py line 64: settings = Settings().  HASH_SALT is declared with
\* default=None, so a missing variable leaves it None and raises nothing.
LoadSettings ==
    /\ pc = "import"
    /\ settings' = [HASH_SALT |-> env]
    /\ pc' = "idle"
    /\ UNCHANGED <<env, data, manage_session, sess, db, db0, chat_id, i,
                   user_cache, exc, hash_salts, ner_log>>
    /\ UNCHANGED scrub_vars

\* base_transformer.py lines 27-37: process(data, session) up to the try.
Process ==
    /\ pc = "idle"
    /\ \E d \in Docs, own \in BOOLEAN :
          /\ data' = d
          /\ manage_session' = own
    /\ sess' = NewSession
    /\ pc' = "validate"
    /\ UNCHANGED <<env, settings, db, db0, chat_id, i, user_cache, exc, hash_salts, ner_log>>
    /\ UNCHANGED scrub_vars

\* transform() adding the Chat row before the document is validated.
Validate_Late ==
    /\ pc = "validate"
    /\ IF ValidChat(data)
       THEN pc' = "chat" /\ exc' = exc /\ sess' = sess
       ELSE /\ pc' = "except" /\ exc' = Some("ValidationError")
            /\ sess' = SessionAdd(sess, "chats",
                                  [chat_id |-> 0, tg_chat_id |-> Get(data, "id")], {})
    /\ UNCHANGED <<env, settings, data, manage_session, db, db0, chat_id,
                   i, user_cache, hash_salts, ner_log>>
    /\ UNCHANGED scrub_vars

\* transform() lines 42-46: RawChat.parse_obj(data); a ValidationError is
\* logged and re-raised.
Validate ==
    /\ pc = "validate"
    /\ IF ValidChat(data)
       THEN pc' = "chat" /\ exc' = exc
       ELSE pc' = "except" /\ exc' = Some("ValidationError")
    /\ UNCHANGED <<env, settings, data, manage_session, sess, db, db0, chat_id,
                   i, user_cache, hash_salts, ner_log>>
    /\ UNCHANGED scrub_vars

\* transform() lines 49-61: the Chat row is added and flushed; user_cache = set().
WriteChat ==
    /\ pc = "chat"
    /\ \E S1 \in {SessionFlush(SessionAdd(sess, "chats",
                                  ChatRow(raw_chat, settings.HASH_SALT), {}), db)} :
          /\ sess' = S1
          /\ IF IsNone(S1.err)
             THEN /\ pc' = "loop"
                  /\ chat_id' = NextId("chats", db.chats \cup sess.txn.chats)
                  /\ exc' = exc
             ELSE /\ pc' = "except"
                  /\ chat_id' = chat_id
                  /\ exc' = S1.err
    /\ hash_salts' = hash_salts \cup {settings.HASH_SALT}
    /\ user_cache' = {}
    /\ i' = 0
    /\ UNCHANGED <<env, settings, data, manage_session, db, db0, ner_log>>
    /\ UNCHANGED scrub_vars

\* transform() lines 64-135: the next message of raw_chat.messages.
LoopMessage ==
    /\ pc = "loop"
    /\ i < Len(raw_chat.messages)
    /\ LET m == raw_chat.messages[i + 1] IN
       \E ents \in NerChoices(MessageText(m)), entsE \in EntityNerChoices(m) :
          \E r \in {MessageStep(sess, db, m, chat_id, user_cache,
                                settings.HASH_SALT, ents, entsE)} :
             /\ sess' = r.sess
             /\ ner_log' = Append(ner_log, ents)
             /\ user_cache' = r.cache
             /\ exc' = r.err
             /\ IF IsNone(r.err) THEN pc' = "loop" /\ i' = i + 1
                ELSE pc' = "except" /\ i' = i
    /\ hash_salts' = hash_salts \cup {settings.HASH_SALT}
    /\ UNCHANGED <<env, settings, data, manage_session, db, db0, chat_id>>
    /\ UNCHANGED scrub_vars

\* transform() line 138: the final flush; transform() returns.
FinalFlush ==
    /\ pc = "loop"
    /\ i = Len(raw_chat.messages)
    /\ \E S1 \in {SessionFlush(sess, db)} :
          /\ sess' = S1
          /\ exc' = S1.err
          /\ pc' = IF IsNone(S1.err) THEN "returned" ELSE "except"
    /\ UNCHANGED <<env, settings, data, manage_session, db, db0, chat_id, i,
                   user_cache, hash_salts, ner_log>>
    /\ UNCHANGED scrub_vars

\* process() lines 41-42: commit, when process() opened the session.
AfterTransform ==
    /\ pc = "returned"
    /\ IF manage_session
       THEN /\ sess' = SessionCommit(sess, db)
            /\ db' = Committed(sess, db)
       ELSE UNCHANGED <<sess, db>>
    /\ pc' = "finally"
    /\ UNCHANGED <<env, settings, data, manage_session, db0, chat_id, i,
                   user_cache, exc, hash_salts, ner_log>>
    /\ UNCHANGED scrub_vars

\* process() committing in the except branch instead of rolling back.
HandleException_Commit ==
    /\ pc = "except"
    /\ IF manage_session
       THEN /\ sess' = SessionCommit(sess, db)
            /\ db' = Committed(sess, db)
       ELSE UNCHANGED <<sess, db>>
    /\ pc' = "finally"
    /\ UNCHANGED <<env, settings, data, manage_session, db0, chat_id, i,
                   user_cache, exc, hash_salts, ner_log>>
    /\ UNCHANGED scrub_vars
\* process() lines 43-46: rollback, when process() opened the session; raise e.
HandleException ==
    /\ pc = "except"
    /\ sess' = IF manage_session THEN SessionRollback(sess) ELSE sess
    /\ pc' = "finally"
    /\ UNCHANGED <<env, settings, data, manage_session, db, db0, chat_id, i,
                   user_cache, exc, hash_salts, ner_log>>
    /\ UNCHANGED scrub_vars

\* process() closing the session whoever opened it.
Finally_CloseAny ==
    /\ pc = "finally"
    /\ sess' = SessionClose(sess)
    /\ pc' = "done"
    /\ UNCHANGED <<env, settings, data, manage_session, db, db0, chat_id, i,
                   user_cache, exc, hash_salts, ner_log>>
    /\ UNCHANGED scrub_vars

\* process() lines 47-49: close, when process() opened the session.
Finally ==
    /\ pc = "finally"
    /\ sess' = IF manage_session THEN SessionClose(sess) ELSE sess
    /\ pc' = "done"
    /\ UNCHANGED <<env, settings, data, manage_session, db, db0, chat_id, i,
                   user_cache, exc, hash_salts, ner_log>>
    /\ UNCHANGED scrub_vars

Next ==
    \/ LoadSettings
    \/ Process
    \/ Validate
    \/ WriteChat
    \/ LoopMessage
    \/ FinalFlush
    \/ AfterTransform
    \/ HandleException
    \/ Finally

Spec == Init /\ [][Next]_vars

(***************************************************************************)
(* utils/pii.py: one call of scrub_text_advanced on a non-transformer      *)
(* input, line by line.  The inputs are the strings made of at most        *)
(* MaxParts pieces: an e-mail address, a phone number, a URL, a handle,    *)
(* Latin words, a Cyrillic first name and surname, a further capitalized   *)
(* Cyrillic word, a space.                                                 *)
(***************************************************************************)
MaxParts == 2

EmailPiece == <<"a", "@", "b", ".", "c", "o">>
PhonePiece == <<"5", "5", "5", "-", "1", "2", "3", "4">>
UrlPiece == <<"h", "t", "t", "p", ":", "/", "/", "x">>
CyrThird == <<" ", "CYR-A", "cyr-n", "cyr-n", "cyr-a">>
ScrubPieces ==
    {EmailPiece, PhonePiece, UrlPiece, Handle, HiBob, CyrName, CyrThird, <<" ">>}
ScrubInputs ==
    {Concat(ps) : ps \in UNION {[1..n -> ScrubPieces] : n \in 0..MaxParts}}

ScrubInit ==
    /\ env = None /\ settings = "unset" /\ pc = "import"
    /\ data = [type |-> "none"] /\ manage_session = FALSE /\ sess = NewSession
    /\ db = EmptyTables /\ db0 = EmptyTables /\ chat_id = 0 /\ i = 0
    /\ user_cache = {} /\ exc = None /\ hash_salts = {} /\ ner_log = <<>>
    /\ scrub_arg \in ScrubInputs
    /\ scrub_text = scrub_arg
    /\ scrub_at = "entry"
    /\ scrub_path = "none" /\ nlp_calls = 0 /\ nlp_answer = {}

\* Lines 53-54: if not text or not isinstance(text, str): return text
ScrubEntry ==
    /\ scrub_at = "entry"
    /\ IF Len(scrub_text) = 0
       THEN scrub_at' = "returned" /\ scrub_path' = "empty"
       ELSE scrub_at' = "emails" /\ scrub_path' = scrub_path
    /\ UNCHANGED <<process_vars, scrub_arg, scrub_text, nlp_calls, nlp_answer>>

\* Line 57: text = scrub_emails(text)
ScrubEmails ==
    /\ scrub_at = "emails"
    /\ scrub_text' = scrub_emails(scrub_text)
    /\ scrub_at' = "phones"
    /\ UNCHANGED <<process_vars, scrub_arg, scrub_path, nlp_calls, nlp_answer>>

\* Line 58: text = scrub_phones(text)
ScrubPhones ==
    /\ scrub_at = "phones"
    /\ scrub_text' = scrub_phones(scrub_text)
    /\ scrub_at' = "urls"
    /\ UNCHANGED <<process_vars, scrub_arg, scrub_path, nlp_calls, nlp_answer>>

\* Line 59: text = scrub_urls(text)
ScrubUrls ==
    /\ scrub_at = "urls"
    /\ scrub_text' = scrub_urls(scrub_text)
    /\ scrub_at' = "usernames"
    /\ UNCHANGED <<process_vars, scrub_arg, scrub_path, nlp_calls, nlp_answer>>

\* Line 60: text = scrub_telegram_username(text)
ScrubUsernames ==
    /\ scrub_at = "usernames"
    /\ scrub_text' = scrub_telegram_username(scrub_text)
    /\ scrub_at' = "names"
    /\ UNCHANGED <<process_vars, scrub_arg, scrub_path, nlp_calls, nlp_answer>>

\* The Cyrillic substitution made after the language detector and the
\* model have been run on the text.
CyrillicShortcut_ViaNlp ==
    /\ scrub_at = "names"
    /\ Search(CYRILLIC_NAME_RE, scrub_text)
    /\ scrub_text' = Sub(CYRILLIC_NAME_RE, CyrillicPair, scrub_text)
    /\ nlp_calls' = nlp_calls + 1
    /\ scrub_at' = "returned"
    /\ scrub_path' = "cyrillic"
    /\ UNCHANGED <<process_vars, scrub_arg, nlp_answer>>

\* Lines 64-65: the Cyrillic pattern is found; substitute and return.
CyrillicShortcut ==
    /\ scrub_at = "names"
    /\ Search(CYRILLIC_NAME_RE, scrub_text)
    /\ scrub_text' = Sub(CYRILLIC_NAME_RE, CyrillicPair, scrub_text)
    /\ scrub_at' = "returned"
    /\ scrub_path' = "cyrillic"
    /\ UNCHANGED <<process_vars, scrub_arg, nlp_calls, nlp_answer>>

\* Lines 68-86: detect the language, run the model, redact what it reports.
NerFallback ==
    /\ scrub_at = "names"
    /\ ~Search(CYRILLIC_NAME_RE, scrub_text)
    /\ \E ents \in NerAnswers(scrub_text) :
          /\ nlp_answer' = ents
          /\ scrub_text' = Redact(scrub_text, ents)
    /\ nlp_calls' = nlp_calls + 1
    /\ scrub_at' = "returned"
    /\ scrub_path' = "ner"
    /\ UNCHANGED <<process_vars, scrub_arg>>

ScrubNext ==
    \/ ScrubEntry
    \/ ScrubEmails
    \/ ScrubPhones
    \/ ScrubUrls
    \/ ScrubUsernames
    \/ CyrillicShortcut
    \/ NerFallback

ScrubSpec == ScrubInit /\ [][ScrubNext]_vars

(***************************************************************************)
(* Properties.                                                             *)
(***************************************************************************)
\* The positions in the session's call log of the calls of one kind.
Ops(op) == {k \in 1..Len(sess.calls) : sess.calls[k].op = op}
Writes == Ops("add") \cup Ops("merge") \cup Ops("flush")
\* The rows the invocation has written, flushed or committed, per table.
Staged(tbl) == (db[tbl] \cup sess.txn[tbl]) \ db0[tbl]
\* process() has got past transform(), which returned / which raised.
Returned == pc \in {"returned", "finally", "done"} /\ IsNone(exc)
Raised == pc \in {"except", "finally", "done"} /\ ~IsNone(exc)
\* The pseudonymous ids of the first n messages of the document.
SeenHashes(n) ==
    UNION {Refs([from_pseudo_id |-> hash_id(raw_chat.messages[j].from_id,
                                            settings.HASH_SALT),
                 forwarded_from_pseudo_id |->
                     ForwardedHash(raw_chat.messages[j], settings.HASH_SALT)]) :
           j \in 1..n}

\* C1: when process() opens its own session, commit is called at most once,
\* after every write of transform() and only when transform() returned; a
\* successful invocation has committed once; when transform() raised, process()
\* calls rollback and never commit, the exception is still propagating when
\* process() ends, and the committed tables are those process() started from.
C1_OwnSessionAtomic ==
    manage_session =>
        /\ Cardinality(Ops("commit")) <= 1
        /\ \A c \in Ops("commit") :
              /\ IsNone(exc) /\ pc \in {"finally", "done"}
              /\ \A k \in Writes : k < c
        /\ (pc \in {"finally", "done"} /\ IsNone(exc)) => Ops("commit") # {}
        /\ (pc \in {"finally", "done"} /\ ~IsNone(exc)) =>
              Cardinality(Ops("rollback")) = 1 /\ Ops("commit") = {}
        /\ ~IsNone(exc) => db = db0
        /\ db # db0 => Ops("commit") # {}
\* process() ended with a ValueError raised after rows had been flushed.
C1_Witness ==
    /\ manage_session /\ pc = "done" /\ exc = Some("ValueError")
    /\ i >= 1 /\ Ops("flush") # {} /\ Ops("rollback") # {} /\ db = db0

\* C2: when validation of the document fails, the ValidationError propagates
\* and no add, merge or flush has been issued on the session: nothing is
\* pending, nothing is in the transaction, the committed tables are unchanged.
C2_ValidationBeforeWrites ==
    (~ValidChat(data) /\ pc \in {"chat", "loop", "returned", "except", "finally", "done"}) =>
        /\ exc = Some("ValidationError")
        /\ pc \in {"except", "finally", "done"}
        /\ Writes = {}
        /\ sess.pending = <<>> /\ sess.txn = EmptyTables
        /\ db = db0 /\ hash_salts = {}
\* process() ended on a document whose second message lacks its date.
C2_Witness ==
    /\ pc = "done" /\ exc = Some("ValidationError")
    /\ "type" \in DOMAIN data /\ Len(data.messages) = 2

\* C3: after a successful transform no Message row written by it holds a raw
\* Telegram identifier: content_json carries no from_id, no forwarded_from
\* and no reactor's from_id.
C3_NoRawIdentifier ==
    Returned =>
        \A r \in Staged("messages") :
            IsNone(r.content_json) \/
            LET c == Val(r.content_json) IN
                /\ "from_id" \in DOMAIN c => IsNone(c.from_id)
                /\ "forwarded_from" \in DOMAIN c => IsNone(c.forwarded_from)
                /\ ("reactions" \in DOMAIN c /\ ~IsNone(c.reactions)) =>
                      \A k \in 1..Len(Val(c.reactions)) :
                          \A q \in 1..Len(Val(c.reactions)[k].recent) :
                              "from_id" \notin DOMAIN Val(c.reactions)[k].recent[q]

\* C4: the content_json of a Message row the transform writes has none of
\* the keys file_name, id, text, text_entities, nor a key of a field that is
\* mapped to a column.
MappedKeys ==
    {"type", "date", "date_unixtime", "edited", "reply_to_message_id",
     "media_type", "mime_type", "duration_seconds", "from_id", "forwarded_from"}
C4_ResidualPayload ==
    \A r \in Staged("messages") :
        IsNone(r.content_json) \/
        DOMAIN Val(r.content_json)
            \cap (MappedKeys \cup {"file_name", "id", "text", "text_entities"}) = {}

\* C5: the recent-reactor list of a reaction is persisted nowhere: Reaction
\* rows hold the emoji and the count only, and no content_json holds a
\* reaction with a recent list.
C5_RecentReactorsDropped ==
    /\ \A x \in Staged("reactions") : DOMAIN x = {"id", "message_id", "emoji", "count"}
    /\ \A r \in Staged("messages") :
          (~IsNone(r.content_json) /\ "reactions" \in DOMAIN Val(r.content_json)
              /\ ~IsNone(Val(r.content_json).reactions)) =>
          \A k \in 1..Len(Val(Val(r.content_json).reactions)) :
              "recent" \notin DOMAIN Val(Val(r.content_json).reactions)[k]

\* C6: a Message row is added only after a merge of the UserPseudo of each
\* pseudonymous id it references has been issued, so every Message row in the
\* database or the transaction references users rows that are there.
C6_UserBeforeMessage ==
    /\ \A j \in Ops("add") :
          sess.calls[j].tbl = "messages" =>
             \A p \in sess.calls[j].refs :
                \E k \in Ops("merge") : k < j /\ sess.calls[k].refs = {p}
    /\ \A r \in db.messages \cup sess.txn.messages :
          \A p \in Refs(r) :
             \E u \in db.users \cup sess.txn.users : u.pseudo_id = p
\* A Message row with a sender and a different forwarded-from identity is
\* in the transaction.
C6_Witness ==
    \E r \in sess.txn.messages : Cardinality(Refs(r)) = 2

\* C7: within one invocation a pseudonymous id is merged exactly once, at the
\* first message that carries it: no two merges name the same id, the merges
\* issued once i messages are handled are those of the ids these messages
\* carry, a merge is followed by the add of a Message that references its id
\* and preceded by none, and when transform() returns the users table holds
\* one row for each id seen besides the rows it already had.
C7_OneMergePerIdentity ==
    /\ \A j, k \in Ops("merge") : sess.calls[j].refs = sess.calls[k].refs => j = k
    /\ pc \in {"loop", "returned"} =>
          {sess.calls[j].refs : j \in Ops("merge")} = {{p} : p \in SeenHashes(i)}
    /\ \A j \in Ops("merge") :
          \A k \in Ops("add") :
             sess.calls[k].tbl = "messages" =>
                IF k < j THEN sess.calls[j].refs \cap sess.calls[k].refs = {}
                ELSE (\E q \in j+1..k-1 : sess.calls[q].op = "add"
                                          /\ sess.calls[q].tbl = "messages")
                     \/ sess.calls[j].refs \subseteq sess.calls[k].refs
    /\ pc = "returned" =>
          db.users \cup sess.txn.users =
             db0.users \cup {[pseudo_id |-> p] : p \in SeenHashes(i)}
\* transform() returned for a document whose two messages carry the same id.
C7_Witness ==
    /\ pc = "returned" /\ i = 2
    /\ SeenHashes(1) # {} /\ SeenHashes(2) = SeenHashes(1)
    /\ Cardinality(Ops("merge")) = Cardinality(SeenHashes(1))

\* Message j of the document has the original id of an earlier message.
SharesId(j) ==
    \E k \in 1..j-1 :
        /\ ~IsNone(raw_chat.messages[k].id)
        /\ raw_chat.messages[k].id = raw_chat.messages[j].id
\* C8: when a message has the original id of an earlier message of the same
\* document, the loop never gets past it: unless building its row raised
\* first, the flush of its row raises the uniqueness error, the error is
\* propagating when process() ends, and nothing of the chat is committed.
C8_DuplicateIdRejected ==
    (ValidChat(data) /\ pc \notin {"import", "idle", "validate"}) =>
        \A j \in 1..Len(raw_chat.messages) :
            SharesId(j) =>
                /\ i < j
                /\ db = db0
                /\ pc \in {"finally", "done"} => ~IsNone(exc)
                /\ (i = j - 1 /\ Raised /\ ~RowRaises(raw_chat.messages[j])) =>
                      /\ exc = Some("IntegrityError")
                      /\ Ops("commit") = {}
                      /\ sess.txn = EmptyTables
\* process() ended with the uniqueness error of the second of two messages
\* that share an id.
C8_Witness ==
    /\ pc = "done" /\ exc = Some("IntegrityError") /\ i = 1
    /\ Len(raw_chat.messages) = 2 /\ SharesId(2) /\ manage_session

\* C9: with HASH_SALT missing from the environment the import of the
\* settings fails: process() is never entered, hash_id is never called and
\* nothing is added to a session.
C9_MissingSaltIsFatal ==
    IsNone(env) =>
        /\ pc = "import" /\ settings = "unset"
        /\ hash_salts = {} /\ Ops("add") = {}

\* C10 as stated: the document of the scenario, as written, is processed
\* without exception and leaves one Chat row, one UserPseudo row, one
\* Message row with the scrubbed text, no entity row and no reaction row.
C10_ScenarioAsWritten ==
    (data = ScenarioLiteral /\ pc = "done") =>
        /\ IsNone(exc)
        /\ Cardinality(Staged("chats")) = 1
        /\ Cardinality(Staged("messages")) = 1
        /\ \A r \in Staged("messages") : r.text_raw = CallMeScrubbed
\* C10: the document of the scenario fails validation as written and writes
\* nothing; completed with the required fields (the chat's type, the
\* message's type, date and from) and with a salt configured it is processed
\* without exception and leaves one Chat row whose name is the token hash_id
\* gives for "Secret Group", the users row of the token of
\* "u1" (written by this run unless the database already had it), one
\* Message row of that sender whose text_raw is
\* "Call me at [PHONE] or [EMAIL]" when the recogniser reports no entity in
\* it, no entity row and no reaction row.
C10_Scenario ==
    /\ (data = ScenarioLiteral /\ pc \in {"chat", "loop", "returned", "except", "finally", "done"}) =>
          /\ Raised /\ exc = Some("ValidationError")
          /\ \A t \in DOMAIN EmptyTables : Staged(t) = {}
    /\ (data = ScenarioDoc /\ ~IsNone(env) /\ pc \in {"returned", "finally", "done"}) =>
          LET u1 == Val(hash_id(Some("u1"), settings.HASH_SALT)) IN
          /\ IsNone(exc)
          /\ Cardinality(Staged("chats")) = 1
          /\ \A c \in Staged("chats") :
                /\ c.name = hash_id(Some("Secret Group"), settings.HASH_SALT)
                /\ ~IsNone(c.name)
                /\ c.tg_chat_id = Some(1)
          /\ Staged("users") \subseteq {[pseudo_id |-> u1]}
          /\ pc = "returned" => [pseudo_id |-> u1] \in db.users \cup sess.txn.users
          /\ [pseudo_id |-> u1] \notin db0.users => Cardinality(Staged("users")) = 1
          /\ Cardinality(Staged("messages")) = 1
          /\ \A r \in Staged("messages") :
                /\ r.message_id = 1
                /\ r.from_pseudo_id = Some(u1)
                /\ ner_log = <<{}>> => r.text_raw = CallMeScrubbed
          /\ Staged("message_entities") = {} /\ Staged("reactions") = {}
\* process() ended without exception on the completed document of the
\* scenario, the recogniser having reported no entity.
C10_Witness ==
    /\ data = ScenarioDoc /\ ~IsNone(env) /\ pc = "done" /\ IsNone(exc)
    /\ ner_log = <<{}>>
    /\ \E r \in Staged("messages") : r.text_raw = CallMeScrubbed

\* The string sub occurs in s.
Contains(s, sub) ==
    \E p \in 1..(Len(s) - Len(sub) + 1) : SubSeq(s, p, p + Len(sub) - 1) = sub
\* The substrings of s that EMAIL_RE matches in a left-to-right scan start at.
EmailMatches(s) ==
    {SubSeq(s, p, MatchAlts(EMAIL_RE, 1, s, p) - 1) :
        p \in {q \in 1..Len(s) : MatchAlts(EMAIL_RE, 1, s, q) # 0}}

\* C11: for a non-empty input, what scrub_text_advanced returns has no
\* substring that EMAIL_RE, PHONE_RE, URL_RE or TELEGRAM_USERNAME_RE matches;
\* and when the input has an e-mail-like substring, the result contains
\* [EMAIL] and no copy of that substring.  Stated for the exits on which the
\* result is decided by the patterns alone: the Cyrillic shortcut and the
\* fallback in which the recogniser reports no entity.
C11_NoPatternLeft ==
    (scrub_at = "returned" /\ Len(scrub_arg) > 0 /\ nlp_answer = {}) =>
        /\ ~Search(EMAIL_RE, scrub_text)
        /\ ~Search(PHONE_RE, scrub_text)
        /\ ~Search(URL_RE, scrub_text)
        /\ ~Search(TELEGRAM_USERNAME_RE, scrub_text)
        /\ Search(EMAIL_RE, scrub_arg) =>
              /\ Contains(scrub_text, TagEMAIL)
              /\ \A e \in EmailMatches(scrub_arg) : ~Contains(scrub_text, e)

\* The pattern that matches the string lit and nothing else.
Literal(lit) == << [j \in 1..Len(lit) |-> Lit(lit[j])] >>
RECURSIVE CountMatches(_, _, _)
\* The matches of a left-to-right, non-overlapping scan of s from p on.
CountMatches(alts, s, p) ==
    IF p > Len(s) THEN 0
    ELSE IF MatchAlts(alts, 1, s, p) > p
         THEN 1 + CountMatches(alts, s, MatchAlts(alts, 1, s, p))
         ELSE CountMatches(alts, s, p + 1)

KthMessage(k) ==
    CHOOSE r \in sess.txn.messages :
        Cardinality({q \in sess.txn.messages : q.message_rowid < r.message_rowid}) = k - 1
IsChild(c) == c.op = "add" /\ c.tbl \in {"message_entities", "reactions"}
IsMessageAdd(c) == c.op = "add" /\ c.tbl = "messages"

\* C13: for a valid document the first two calls on the session are the add
\* of the Chat row and its flush; every add of a Message row is followed at once by a flush; an
\* entity or reaction row is added only after the add and flush of a Message
\* row; while transform() runs, the Message rows it inserted are those of the
\* messages handled so far, in document order by surrogate id, each with the
\* surrogate id (at least 1) of the one Chat row of the invocation; and when
\* it returns, the entity and reaction rows that carry the surrogate id of
\* the k-th Message row are those of the k-th message, and there are no
\* others.
C13_StagingOrder ==
    /\ (ValidChat(data) /\ Len(sess.calls) >= 1) =>
          sess.calls[1] = Call("add", "chats", {})
    /\ (ValidChat(data) /\ Len(sess.calls) >= 2) => sess.calls[2].op = "flush"
    /\ \A j \in 1..Len(sess.calls) :
          /\ IsMessageAdd(sess.calls[j]) =>
                j > 2 /\ (j < Len(sess.calls) => sess.calls[j + 1].op = "flush")
          /\ IsChild(sess.calls[j]) =>
                \E a \in 3..j-2 :
                    /\ IsMessageAdd(sess.calls[a]) /\ sess.calls[a + 1].op = "flush"
                    /\ \A q \in a+2..j-1 : IsChild(sess.calls[q])
    /\ (pc \in {"loop", "returned"} /\ IsNone(exc)) =>
          /\ chat_id >= 1
          /\ sess.txn.chats # {}
          /\ \A c \in sess.txn.chats : c.chat_id = chat_id /\ c.tg_chat_id = raw_chat.id
          /\ Cardinality(sess.txn.messages) = i
          /\ \A k \in 1..i :
                /\ KthMessage(k).message_rowid >= 1
                /\ KthMessage(k).chat_id = chat_id
                /\ KthMessage(k).message_id = OrZero(raw_chat.messages[k].id)
                /\ KthMessage(k).from_pseudo_id =
                      hash_id(raw_chat.messages[k].from_id, settings.HASH_SALT)
    /\ (pc = "returned" /\ IsNone(exc)) =>
          /\ \A k \in 1..i :
                /\ {[entity_type |-> e.entity_type] :
                       e \in {x \in sess.txn.message_entities :
                                 x.message_id = KthMessage(k).message_rowid}}
                   = {[entity_type |-> Entities(raw_chat.messages[k])[q].type] :
                         q \in 1..Len(Entities(raw_chat.messages[k]))}
                /\ Cardinality({x \in sess.txn.message_entities :
                                   x.message_id = KthMessage(k).message_rowid})
                   = Len(Entities(raw_chat.messages[k]))
                /\ {[emoji |-> x.emoji, count |-> x.count] :
                       x \in {x \in sess.txn.reactions :
                                 x.message_id = KthMessage(k).message_rowid}}
                   = {[emoji |-> Reactions(raw_chat.messages[k])[q].emoji,
                       count |-> Reactions(raw_chat.messages[k])[q].count] :
                         q \in 1..Len(Reactions(raw_chat.messages[k]))}
          /\ \A x \in sess.txn.message_entities \cup sess.txn.reactions :
                \E k \in 1..i : x.message_id = KthMessage(k).message_rowid
\* transform() returned for two messages, the first of them with an entity
\* and a reaction, in a database that already held a chat.
C13_Witness ==
    /\ pc = "returned" /\ IsNone(exc) /\ i = 2 /\ db0 # EmptyTables
    /\ Entities(raw_chat.messages[1]) # <<>> /\ Reactions(raw_chat.messages[1]) # <<>>
    /\ sess.txn.message_entities # {} /\ sess.txn.reactions # {}

\* The calls process() makes on a session it opened itself.
OwnerCalls == Ops("commit") \cup Ops("rollback") \cup Ops("close")

\* C14 as stated: with a caller-supplied session process() calls neither
\* commit nor rollback nor close, and when transform() raised after rows had
\* been flushed, those rows are still in the caller's transaction.
C14_CallerSessionAsWritten ==
    (~manage_session /\ pc \notin {"import", "idle"}) =>
        /\ OwnerCalls = {}
        /\ (Raised /\ chat_id >= 1) =>
              sess.txn.chats # {} /\ Cardinality(sess.txn.messages) = i
\* C14: with a caller-supplied session process() and transform() call
\* neither commit nor rollback nor close and nothing becomes durable; when
\* transform() returned, every row is flushed into the caller's open
\* transaction; when it raised a validation or row-construction error, the
\* rows flushed before it are still in that transaction and the session is
\* active; when a flush raised, that flush has rolled the transaction back:
\* no row remains and the session is inactive until the caller rolls back.
C14_CallerSession ==
    (~manage_session /\ pc \notin {"import", "idle"}) =>
        /\ OwnerCalls = {}
        /\ db = db0
        /\ Returned =>
              /\ sess.pending = <<>> /\ sess.state = "active"
              /\ Cardinality(sess.txn.chats) = 1
              /\ Cardinality(sess.txn.messages) = Len(raw_chat.messages)
        /\ (Raised /\ exc = Some("ValidationError")) =>
              sess.txn = EmptyTables /\ sess.state = "active"
        /\ (Raised /\ exc = Some("ValueError")) =>
              /\ sess.state = "active"
              /\ Cardinality(sess.txn.chats) = 1
              /\ Cardinality(sess.txn.messages) = i
        /\ (Raised /\ exc = Some("IntegrityError")) =>
              sess.txn = EmptyTables /\ sess.state = "inactive"
\* process() ended on a caller's session with a ValueError raised at the
\* second message: the Chat row and the first Message row are still there.
C14_Witness ==
    /\ ~manage_session /\ pc = "done" /\ exc = Some("ValueError") /\ i = 1
    /\ sess.txn.chats # {} /\ sess.txn.messages # {} /\ OwnerCalls = {}

\* Message j has no id or the id 0, as has an earlier message, and one of
\* the two has no id.
SharesZero(j) ==
    \E k \in 1..j-1 :
        /\ OrZero(raw_chat.messages[k].id) = 0
        /\ OrZero(raw_chat.messages[j].id) = 0
        /\ IsNone(raw_chat.messages[k].id) \/ IsNone(raw_chat.messages[j].id)
\* C15: a message without id is stored with message_id 0; and when a chat has
\* two messages without id, or one without id and one with the id 0, the loop
\* never gets past the second of them: unless building its row raised first,
\* the flush of its row raises the uniqueness error, the transaction is
\* rolled back, the error is propagating when process() ends and nothing of
\* the chat is committed.
C15_AbsentIdIsZero ==
    /\ (pc \in {"loop", "returned"} /\ IsNone(exc)) =>
          \A k \in 1..i :
              IsNone(raw_chat.messages[k].id) => KthMessage(k).message_id = 0
    /\ (ValidChat(data) /\ pc \notin {"import", "idle", "validate"}) =>
          \A j \in 1..Len(raw_chat.messages) :
              SharesZero(j) =>
                  /\ i < j
                  /\ db = db0
                  /\ pc \in {"finally", "done"} => ~IsNone(exc)
                  /\ (i = j - 1 /\ Raised /\ ~RowRaises(raw_chat.messages[j])) =>
                        /\ exc = Some("IntegrityError")
                        /\ sess.calls[Len(sess.calls) -
                              (IF pc = "except" THEN 0
                               ELSE IF ~manage_session THEN 0
                               ELSE IF pc = "finally" THEN 1 ELSE 2)].op = "flush"
                        /\ Ops("commit") = {}
                        /\ sess.txn = EmptyTables
\* process() ended with the uniqueness error for a message with the id 0
\* that follows a message without id.
C15_Witness ==
    /\ pc = "done" /\ exc = Some("IntegrityError") /\ i = 1
    /\ Len(raw_chat.messages) = 2
    /\ IsNone(raw_chat.messages[1].id) /\ raw_chat.messages[2].id = Some(0)
=============================================================================
